---- MODULE Spec2Model ----
(***************************************************************************)
(* A model of src/src/tikz.rs: the Tikz session (a scratch directory and   *)
(* an append-only cache of rendered diagrams), the rewriting of a document *)
(* by Tikz::replace, the render pipeline of Tikz::invoke_latex, and the    *)
(* resolution of placeholder names by Tikz::is_filename and Tikz::fetch.   *)
(*                                                                         *)
(* Text is modelled by TLA+ strings.  A grave accent cannot be written in  *)
(* a TLA+ string literal, so the model writes the grave accent as "~": the *)
(* code fence of the pattern is the string Fence below.                    *)
(***************************************************************************)
EXTENDS Integers, Sequences, FiniteSets, TLC

VARIABLES
    images,     \* Tikz.images: fingerprint -> Result<Vec<u8>, String>
    files,      \* the files of Tikz.tempdir: name -> content
    pc,         \* position of the session's thread
    buffer,     \* replace: the document being rewritten
    captures,   \* replace: the matches captures_iter has still to yield
    queue,      \* replace: the local VecDeque of placeholders
    cur,        \* the render in progress (invoke_latex's arguments and steps)
    ret,        \* the value returned by the last call that returned
    panic,      \* "none", or the reason the thread panicked
    renders,    \* history: fingerprint -> number of invoke_latex calls
    inserted,   \* history: number of inserts on a key that had an entry
    engineOut,  \* history: fingerprint -> stdout of an engine that exited non-zero
    emitted,    \* history: placeholders pushed by the call in progress / last call
    steps,      \* history: the steps invoke_latex has taken in the call in progress
    fp,         \* codec: the fingerprint under test
    fname,      \* codec: the name built for fp
    disk,       \* the file system as the session not running left it: path -> content
    other,      \* the Tikz value of the session that is not running
    running     \* which session the thread that runs belongs to

vars == <<images, files, pc, buffer, captures, queue, cur, ret, panic,
          renders, inserted, engineOut, emitted, steps, fp, fname,
          disk, other, running>>

(***************************************************************************)
(* Strings                                                                 *)
(***************************************************************************)
Char(s, i) == SubSeq(s, i, i)

StartsWith(s, p) == Len(p) <= Len(s) /\ SubSeq(s, 1, Len(p)) = p

EndsWith(s, p) == Len(p) <= Len(s) /\ SubSeq(s, Len(s) - Len(p) + 1, Len(s)) = p

\* whether p occurs in s at 1-based position i
At(s, i, p) == i + Len(p) - 1 <= Len(s) /\ SubSeq(s, i, i + Len(p) - 1) = p

\* regex \s on the characters of the model's alphabet
IsSpace(c) == c \in {" ", "\n", "\t", "\r"}

\* "\n".repeat(n)
RECURSIVE Repeat(_, _)
Repeat(s, n) == IF n <= 0 THEN "" ELSE s \o Repeat(s, n - 1)

\* s.split('\n').count() - 1: the number of newlines of s
CountNewlines(s) == Cardinality({i \in 1..Len(s) : Char(s, i) = "\n"})

\* str::trim on the whitespace of the model's alphabet
RECURSIVE TrimStart(_)
TrimStart(s) == IF s # "" /\ IsSpace(Head(s)) THEN TrimStart(Tail(s)) ELSE s

RECURSIVE TrimEnd(_)
TrimEnd(s) ==
    IF s # "" /\ IsSpace(Char(s, Len(s)))
    THEN TrimEnd(SubSeq(s, 1, Len(s) - 1)) ELSE s

Trim(s) == TrimEnd(TrimStart(s))

(***************************************************************************)
(* u64: four 16-bit limbs, most significant first, so that every           *)
(* intermediate value of the arithmetic stays inside TLC's integers.       *)
(***************************************************************************)
LimbBase == 256 * 256

U64(a, b, c, d) == <<a, b, c, d>>

U64Zero == U64(0, 0, 0, 0)

U64Max == U64(65535, 65535, 65535, 65535)

\* h * m + a, with the carry out of bit 63 (0 when the result fits)
MulAdd(h, m, a) ==
    LET x0 == h[4] * m + a
        x1 == h[3] * m + (x0 \div LimbBase)
        x2 == h[2] * m + (x1 \div LimbBase)
        x3 == h[1] * m + (x2 \div LimbBase)
    IN  [val |-> U64(x3 % LimbBase, x2 % LimbBase, x1 % LimbBase, x0 % LimbBase),
         carry |-> x3 \div LimbBase]

\* h divided by 10: quotient and remainder
DivMod10(h) ==
    LET r1 == h[1] % 10
        x2 == r1 * LimbBase + h[2]
        x3 == (x2 % 10) * LimbBase + h[3]
        x4 == (x3 % 10) * LimbBase + h[4]
    IN  [quot |-> U64(h[1] \div 10, x2 \div 10, x3 \div 10, x4 \div 10),
         rem |-> x4 % 10]

Digits == "0123456789"

DigitChar(d) == Char(Digits, d + 1)

IsDigit(c) == c \in {"0", "1", "2", "3", "4", "5", "6", "7", "8", "9"}

DigitVal(c) == CHOOSE d \in 0..9 : DigitChar(d) = c

\* format!("{}", hash) for hash: u64
RECURSIVE ToDecimalRec(_)
ToDecimalRec(h) ==
    IF h = U64Zero THEN ""
    ELSE LET qr == DivMod10(h) IN ToDecimalRec(qr.quot) \o DigitChar(qr.rem)

\* ToDecimal without the case of zero
ToDecimalNoZero(h) == ToDecimalRec(h)

ToDecimal(h) == IF h = U64Zero THEN "0" ELSE ToDecimalRec(h)

None == [some |-> FALSE]

Some(v) == [some |-> TRUE, val |-> v]

\* the digit loop of u64::from_str: checked_mul(10) then checked_add(digit)
RECURSIVE ParseDigits(_, _)
ParseDigits(s, acc) ==
    IF s = "" THEN Some(acc)
    ELSE IF ~IsDigit(Head(s)) THEN None
    ELSE LET r == MulAdd(acc, 10, DigitVal(Head(s)))
         IN  IF r.carry # 0 THEN None ELSE ParseDigits(Tail(s), r.val)

\* s.parse::<u64>().ok(): an empty string, a lone sign, a non-digit and an
\* overflow are errors; one leading "+" is accepted, a leading "-" is not
ParseU64(s) ==
    IF s = "" THEN None
    ELSE IF s = "+" \/ s = "-" THEN None
    ELSE IF Head(s) = "+" THEN ParseDigits(Tail(s), U64Zero)
    ELSE ParseDigits(s, U64Zero)

(***************************************************************************)
(* Bytes and UTF-8.  A Vec<u8> is a sequence of numbers 0..255.  The bytes *)
(* of the model are the ASCII bytes of its alphabet and the bytes 128 and  *)
(* 255, which no well-formed UTF-8 text contains on their own.             *)
(***************************************************************************)
\* the characters with codes 32..125, in code order ("~" at 96: see above)
Ascii ==
    " !\"#$%&'()*+,-./0123456789:;<=>?@ABCDEFGHIJKLMNOPQRSTUVWXYZ[\\]^_~abcdefghijklmnopqrstuvwxyz{|}"

Code(c) ==
    IF c = "\n" THEN 10
    ELSE 31 + (CHOOSE n \in 1..Len(Ascii) : Char(Ascii, n) = c)

Chr(b) == IF b = 10 THEN "\n" ELSE Char(Ascii, b - 31)

IsAsciiByte(b) == b = 10 \/ (b >= 32 /\ b <= 125)

\* str::as_bytes
Bytes(s) == [i \in 1..Len(s) |-> Code(Char(s, i))]

RECURSIVE DecodeAscii(_)
DecodeAscii(bs) == IF bs = <<>> THEN "" ELSE Chr(Head(bs)) \o DecodeAscii(Tail(bs))

\* String::from_utf8: Ok(the text) when the bytes are well-formed UTF-8
FromUtf8(bs) ==
    IF \A i \in 1..Len(bs) : IsAsciiByte(bs[i])
    THEN [ok |-> TRUE, str |-> DecodeAscii(bs)]
    ELSE [ok |-> FALSE]

(***************************************************************************)
(* Placeholder names: PREFIX, SUFFIX, is_filename                          *)
(***************************************************************************)
PREFIX == "generated_tikz_"

SUFFIX == ".svg"

PREFIX_SIZE == Len(PREFIX)

SUFFIX_SIZE == Len(SUFFIX)

\* the name replace writes into a directive: PREFIX, hash, SUFFIX
PlaceholderName(hash) == PREFIX \o ToDecimal(hash) \o SUFFIX

SlicePanic == [some |-> FALSE, panicked |-> TRUE]

\* name[a..b] of Rust (0-based, half open); panics when a > b or b > len
Slice(name, a, b) ==
    IF a > b \/ b > Len(name) THEN [ok |-> FALSE]
    ELSE [ok |-> TRUE, str |-> SubSeq(name, a + 1, b)]

\* is_filename that does not look at the end of the name
IsFilenamePrefixOnly(name) ==
    IF StartsWith(name, PREFIX)
    THEN LET mid == Slice(name, PREFIX_SIZE, Len(name) - SUFFIX_SIZE)
         IN  IF mid.ok THEN ParseU64(mid.str) ELSE SlicePanic
    ELSE None

\* Tikz::is_filename
IsFilename(name) ==
    IF StartsWith(name, PREFIX) /\ EndsWith(name, SUFFIX)
    THEN LET mid == Slice(name, PREFIX_SIZE, Len(name) - SUFFIX_SIZE)
         IN  IF mid.ok THEN ParseU64(mid.str) ELSE SlicePanic
    ELSE None

(***************************************************************************)
(* REGEX_PATTERN_TIKZ, matched with the leftmost-first rules of the regex  *)
(* crate:                                                                  *)
(*   (tikzpicture|tikzcd) \[ ( \s* FENCE (.*?) FENCE \s* ) \]              *)
(***************************************************************************)
Fence == "~~~"

Environments == <<"tikzpicture", "tikzcd">>

\* the first position >= i of s that holds no whitespace (greedy \s*)
RECURSIVE SkipSpaces(_, _)
SkipSpaces(s, i) ==
    IF i <= Len(s) /\ IsSpace(Char(s, i)) THEN SkipSpaces(s, i + 1) ELSE i

\* whether  FENCE \s* \]  matches at position e; a shorter run of \s* cannot
\* help, because the next character is then whitespace and not "]"
ClosesAt(s, e) == At(s, e, Fence) /\ At(s, SkipSpaces(s, e + Len(Fence)), "]")

\* the least element of a non-empty set of numbers
Least(S) == CHOOSE x \in S : \A y \in S : x <= y

\* FindClose for a greedy (?s).* : the last e >= i where the rest matches
FindCloseGreedy(s, i) ==
    LET ends == {e \in i..Len(s) : ClosesAt(s, e)}
    IN  IF ends = {} THEN 0 ELSE CHOOSE x \in ends : \A y \in ends : y <= x

\* the lazy (?s).*? : the first e >= i where the rest of the pattern matches,
\* or 0 when there is none
FindClose(s, i) ==
    LET ends == {e \in i..Len(s) : ClosesAt(s, e)}
    IN  IF ends = {} THEN 0 ELSE Least(ends)

NoMatch == [matched |-> FALSE]

\* the match of the whole pattern that starts at position i, if any
MatchAt(s, i) ==
    LET envs == {k \in 1..Len(Environments) : At(s, i, Environments[k])}
    IN  IF envs = {} THEN NoMatch
        ELSE
        LET env == Environments[CHOOSE k \in envs : \A m \in envs : k <= m]
            open == i + Len(env)
            fence1 == SkipSpaces(s, open + 1)
        IN  IF ~(At(s, open, "[") /\ At(s, fence1, Fence)) THEN NoMatch
            ELSE
            LET texStart == fence1 + Len(Fence)
                e == FindClose(s, texStart)
            IN  IF e = 0 THEN NoMatch
                ELSE
                LET close == SkipSpaces(s, e + Len(Fence))
                IN  [matched |-> TRUE,
                     start |-> i,
                     end |-> close + 1,
                     environment |-> env,
                     block |-> SubSeq(s, open + 1, close - 1),
                     tex_code |-> SubSeq(s, texStart, e - 1)]

\* the leftmost position >= i where the pattern matches, or 0
NextMatch(s, i) ==
    LET starts == {j \in i..Len(s) : MatchAt(s, j).matched}
    IN  IF starts = {} THEN 0 ELSE Least(starts)

\* Regex::captures_iter: the non-overlapping matches, leftmost first
RECURSIVE CapturesFrom(_, _)
CapturesFrom(s, i) ==
    LET j == NextMatch(s, i)
    IN  IF j = 0 THEN <<>>
        ELSE <<MatchAt(s, j)>> \o CapturesFrom(s, MatchAt(s, j).end)

CapturesIter(s) == CapturesFrom(s, 1)

\* Regex::replace_all with the closure |_| images.pop_front().unwrap():
\* the text between the matches is copied, every match is replaced by what
\* the closure returns; unwrap panics on an empty queue
RECURSIVE ReplaceFrom(_, _, _, _)
ReplaceFrom(s, caps, last, q) ==
    IF caps = <<>>
    THEN [out |-> SubSeq(s, last, Len(s)), queue |-> q, popped_empty |-> FALSE]
    ELSE IF q = <<>>
    THEN [out |-> "", queue |-> q, popped_empty |-> TRUE]
    ELSE LET m == Head(caps)
             rest == ReplaceFrom(s, Tail(caps), m.end, Tail(q))
         IN  [out |-> SubSeq(s, last, m.start - 1) \o Head(q) \o rest.out,
              queue |-> rest.queue,
              popped_empty |-> rest.popped_empty]

ReplaceAll(s, q) == ReplaceFrom(s, CapturesIter(s), 1, q)

(***************************************************************************)
(* Fingerprints.  DefaultHasher is SipHash of the standard library.  The   *)
(* model keeps what the code feeds it, the bytes of environment, the byte  *)
(* 255, the bytes of tex_code and the byte 255 (impl Hash for str), and    *)
(* stands in for SipHash with a position-weighted sum per 16-bit limb,     *)
(* which is deterministic, order sensitive and byte exact.                 *)
(***************************************************************************)
Weight(i, k) == ((i * 7919 + k * 104729) % 65521) + 1

RECURSIVE LimbSum(_, _, _, _)
LimbSum(bs, k, lo, hi) ==
    IF lo > hi THEN 0
    ELSE IF lo = hi THEN (bs[lo] * Weight(lo, k)) % LimbBase
    ELSE LET mid == (lo + hi) \div 2
         IN  (LimbSum(bs, k, lo, mid) + LimbSum(bs, k, mid + 1, hi)) % LimbBase

\* Hasher::finish on the bytes written
HasherFinish(bs) ==
    U64(LimbSum(bs, 1, 1, Len(bs)), LimbSum(bs, 2, 1, Len(bs)),
        LimbSum(bs, 3, 1, Len(bs)), LimbSum(bs, 4, 1, Len(bs)))

\* impl Hash for str: the bytes, then 0xff
HashStr(s) == Bytes(s) \o <<255>>

\* replace, lines 96-100
Fingerprint(environment, tex_code) ==
    HasherFinish(HashStr(environment) \o HashStr(tex_code))

(***************************************************************************)
(* Results, messages, images                                               *)
(***************************************************************************)
Ok(v) == [ok |-> TRUE, bytes |-> v]

Err(m) == [ok |-> FALSE, msg |-> m]

LATEX_ENGINE == "lualatex"

PDF2SVG == "pdf2svg"

\* assets/latex/quiver.sty is not part of the sources: an opaque text
QuiverSty == "%quiver.sty%"

LATEX_DOCUMENT_BEGIN ==
    "\\documentclass[tikz]{standalone}" \o QuiverSty \o "\\begin{document}"

LATEX_DOCUMENT_END == "\\end{document}"

\* what the five writeln! of invoke_latex put into tikz.tex
LatexSource(tex_code, environment) ==
    LATEX_DOCUMENT_BEGIN \o "\n"
    \o "\\begin{" \o environment \o "}\n"
    \o Trim(tex_code) \o "\n"
    \o "\\end{" \o environment \o "}\n"
    \o LATEX_DOCUMENT_END \o "\n"

TexFile == "tikz.tex"

PdfFile == "tikz.pdf"

SvgFile == "tikz.svg"

ConfigFile == "config.lua"

\* The content of an image file: the source it was made from, and beside it
\* what svg_metadata reads from the bytes.  kind "svg" is a document
\* Metadata::parse accepts, unit "" one without a width attribute.
SvgOf(pdf, meta) ==
    [src |-> pdf.src, kind |-> meta.kind, width |-> meta.width, unit |-> meta.unit]

\* execute that puts the name of the program in front of the captured text
ExecuteLabelled(program, how, err, stdout) ==
    CASE how = "spawn_failed" ->
            [panic |-> "none", res |-> Err("failed to invoke " \o program \o ": " \o err)]
      [] how = "wait_failed" ->
            [panic |-> "none", res |-> Err("failed to fetch LaTeX process: " \o err)]
      [] how = "exit_nonzero" ->
            LET text == FromUtf8(stdout)
            IN  IF text.ok THEN [panic |-> "none", res |-> Err(program \o ": " \o text.str)]
                ELSE [panic |-> "execute: from_utf8(stdout).unwrap()", res |-> Err("")]
      [] OTHER -> [panic |-> "none", res |-> Ok(<<>>)]

(***************************************************************************)
(* execute (lines 51-65): what the call returns for each behaviour of the  *)
(* child process.  how is "spawn_failed", "wait_failed", "exit_nonzero" or *)
(* "exit_zero"; err is the operating-system error, stdout the captured     *)
(* bytes.                                                                  *)
(***************************************************************************)
Execute(program, how, err, stdout) ==
    CASE how = "spawn_failed" ->
            [panic |-> "none", res |-> Err("failed to invoke " \o program \o ": " \o err)]
      [] how = "wait_failed" ->
            [panic |-> "none", res |-> Err("failed to fetch LaTeX process: " \o err)]
      [] how = "exit_nonzero" ->
            LET text == FromUtf8(stdout)
            IN  IF text.ok THEN [panic |-> "none", res |-> Err(text.str)]
                ELSE [panic |-> "execute: from_utf8(stdout).unwrap()", res |-> Err("")]
      [] OTHER -> [panic |-> "none", res |-> Ok(<<>>)]

(***************************************************************************)
(* The placeholder of one block (replace, lines 113-132)                   *)
(***************************************************************************)
\* FailDirective that leaves the suffix out of the name
FailDirectiveBare(hash, lines) ==
    "image(\"" \o PREFIX \o ToDecimal(hash) \o "\")" \o lines

FailDirective(hash, lines) ==
    "image(\"" \o PREFIX \o ToDecimal(hash) \o SUFFIX \o "\")" \o lines

OkDirective(hash, width, lines) ==
    "image(\"" \o PREFIX \o ToDecimal(hash) \o SUFFIX \o "\", width: " \o width \o ")"
    \o lines

\* WidthString that drops the unit
WidthStringBare(w) ==
    IF w.unit \in {"Em", "Pt", "Cm", "Mm", "In", "Percent"}
    THEN [ok |-> TRUE, str |-> w.width]
    ELSE [ok |-> FALSE]

\* the match on Width { width, unit } of lines 119-127
WidthString(w) ==
    CASE w.unit = "Em" -> [ok |-> TRUE, str |-> w.width \o "em"]
      [] w.unit = "Pt" -> [ok |-> TRUE, str |-> w.width \o "pt"]
      [] w.unit = "Cm" -> [ok |-> TRUE, str |-> w.width \o "cm"]
      [] w.unit = "Mm" -> [ok |-> TRUE, str |-> w.width \o "mm"]
      [] w.unit = "In" -> [ok |-> TRUE, str |-> w.width \o "in"]
      [] w.unit = "Percent" -> [ok |-> TRUE, str |-> w.width \o "%"]
      [] OTHER -> [ok |-> FALSE]

Placeholder(image, hash, lines) ==
    IF ~image.ok THEN [panic |-> "none", text |-> FailDirective(hash, lines)]
    ELSE IF image.bytes.kind = "not_utf8"
    THEN [panic |-> "replace: from_utf8(image).unwrap()", text |-> ""]
    ELSE IF image.bytes.kind # "svg"
    THEN [panic |-> "replace: Metadata::parse(svg).unwrap()", text |-> ""]
    ELSE IF image.bytes.unit = ""
    THEN [panic |-> "replace: width.unwrap()", text |-> ""]
    ELSE LET w == WidthString(image.bytes)
         IN  IF w.ok THEN [panic |-> "none", text |-> OkDirective(hash, w.str, lines)]
             ELSE [panic |-> "Unsupported SVG-generated unit", text |-> ""]

\* Lines that keeps no newline
LinesNone(block) == Repeat("\n", 0)

\* Lines without the "- 1"
LinesSplitCount(block) == Repeat("\n", CountNewlines(block) + 1)

\* "\n".repeat(block.split('\n').count() - 1), line 94
Lines(block) == Repeat("\n", CountNewlines(block))

(***************************************************************************)
(* The cache: elsa::FrozenMap                                              *)
(***************************************************************************)
\* FrozenMap::get
CacheGet(map, hash) == IF hash \in DOMAIN map THEN Some(map[hash]) ELSE None

\* FrozenMap::insert keeps the value of a key that is present
FrozenInsert(map, hash, image) ==
    IF hash \in DOMAIN map THEN map ELSE (hash :> image) @@ map

(***************************************************************************)
(* The inputs the model draws from: documents, names, and the behaviours   *)
(* of the file system and of the two external tools                        *)
(***************************************************************************)
DocPlain == "no diagram: tikzcd[A] and tikzpicture(~~~A~~~)"

DocUnfenced == "before #tikzpicture[\\draw (0,0) -- (1,1);] after"

DocFenced == "before #tikzpicture[~~~\\draw (0,0) -- (1,1);~~~] after"

DocTwice == "x\n#tikzcd[\n~~~A~~~\n]\ny #tikzcd[\n~~~A~~~\n] z"

DocMixed == "#tikzcd[~~~A~~~ \n]\n#tikzpicture[ ~~~\\draw (0,0) -- (1,1);~~~], #tikzcd[\n~~~A~~~\n]"

Docs == {DocPlain, DocUnfenced, DocFenced, DocTwice, DocMixed}

Range(f) == {f[i] : i \in DOMAIN f}

Fingerprints ==
    UNION { {Fingerprint(m.environment, m.tex_code) : m \in Range(CapturesIter(d))}
            : d \in Docs }

\* the numbers the host may ask fetch for
FetchSamples == Fingerprints \cup {U64Zero, U64Max}

\* the names the host may ask is_filename about
NameSamples ==
    {PlaceholderName(h) : h \in FetchSamples}
    \cup {"", ".svg", "generated_tikz_", "generated_tikz_.svg", "generated_tikz.svg",
          "generated_tikz_svg", "generated_tikz_.sv", "generated_tikz_7",
          "generated_tikz_7.png", "enerated_tikz_7.svg", "generated_tikz_7.svg ",
          "generated_tikz_7a.svg", "generated_tikz_-7.svg", "generated_tikz_ 7.svg",
          "generated_tikz_7.5.svg", "generated_tikz_+.svg", "generated_tikz_+7.svg",
          "generated_tikz_007.svg", "generated_tikz_18446744073709551616.svg",
          "generated_tikz_99999999999999999999.svg", "tikz.svg", "picture.png"}

\* the text of the operating-system errors
OsErrors == {"No such file or directory (os error 2)"}

\* File::create and writeln! on tikz.tex
WriteBehaviours ==
    {[how |-> h, err |-> e] : h \in {"ok", "create_failed", "write_failed"}, e \in OsErrors}

\* the stdout a tool may have written when it exits non-zero; the last one
\* is not well-formed UTF-8
StdoutSamples == { Bytes("Undefined control sequence."), <<>>, <<33, 255>> }

\* a child process: it cannot be spawned, cannot be waited for, exits
\* non-zero with some stdout, or exits zero; wrote tells whether it has
\* written its output file
ToolFailures ==
    {[how |-> h, err |-> e, stdout |-> <<>>, wrote |-> FALSE]
        : h \in {"spawn_failed", "wait_failed"}, e \in OsErrors}
    \cup {[how |-> "exit_nonzero", err |-> "", stdout |-> b, wrote |-> FALSE]
        : b \in StdoutSamples}

ToolSuccess == [how |-> "exit_zero", err |-> "", stdout |-> <<>>, wrote |-> TRUE]

ToolBehaviours == ToolFailures \cup {ToolSuccess}

\* what svg_metadata finds in the image the converter wrote
SvgSamples ==
    { [kind |-> "svg", width |-> "3", unit |-> "Cm"],
      [kind |-> "svg", width |-> "12.5", unit |-> "Pt"],
      [kind |-> "svg", width |-> "100", unit |-> "Percent"],
      [kind |-> "svg", width |-> "2", unit |-> "Em"],
      [kind |-> "svg", width |-> "40", unit |-> "Mm"],
      [kind |-> "svg", width |-> "1.5", unit |-> "In"],
      [kind |-> "svg", width |-> "640", unit |-> "Px"],
      [kind |-> "svg", width |-> "", unit |-> ""],
      [kind |-> "not_svg", width |-> "", unit |-> ""],
      [kind |-> "not_utf8", width |-> "", unit |-> ""] }

\* read(&svg_path)
ReadBehaviours == {[how |-> h, err |-> e] : h \in {"ok", "read_failed"}, e \in OsErrors}

(***************************************************************************)
(* The session                                                             *)
(***************************************************************************)
\* how often the model lets one fingerprint be rendered before it stops
MaxRenders == 2

EmptyMap == [h \in {} |-> Err("")]

NoRender == [active |-> FALSE]

NoRet == [call |-> "none"]

LUA_CONFIG == "\n    texconfig.halt_on_error = true\n    texconfig.interaction = 0\n"

FirstSession == 1

SecondSession == 2

\* one directory for every session
TempDirShared(session) == "/tmp/tikz"

\* tempfile::tempdir(): a directory that did not exist, so no two sessions
\* get the same one
TempDirOf(session) == "/tmp/.tmp" \o DigitChar(session)

\* Path::join
PathIn(dir, name) == dir \o "/" \o name

NoSession == [active |-> FALSE]

\* the session Tikz::new returns: an empty cache, config.lua in the tempdir
Init ==
    /\ images = EmptyMap
    /\ files = (ConfigFile :> (LUA_CONFIG \o "\n"))
    /\ pc = "idle"
    /\ buffer = ""
    /\ captures = <<>>
    /\ queue = <<>>
    /\ cur = NoRender
    /\ ret = NoRet
    /\ panic = "none"
    /\ renders = [h \in Fingerprints |-> 0]
    /\ inserted = 0
    /\ engineOut = EmptyMap
    /\ emitted = <<>>
    /\ fp = U64Zero
    /\ fname = ""
    /\ steps = <<>>
    /\ disk = (PathIn(TempDirOf(FirstSession), ConfigFile) :> (LUA_CONFIG \o "\n"))
    /\ other = NoSession
    /\ running = FirstSession

history == <<renders, inserted, engineOut, emitted, steps>>

codec == <<fp, fname>>

sessions == <<disk, other, running>>

Panic(reason) == pc' = "panicked" /\ panic' = reason

\* replace, lines 82-88: the call starts, the queue is empty
Replace(doc) ==
    /\ pc = "idle"
    /\ buffer' = doc
    /\ captures' = CapturesIter(doc)
    /\ queue' = <<>>
    /\ emitted' = <<>>
    /\ pc' = "scan"
    /\ UNCHANGED <<images, files, cur, ret, panic, renders, inserted, engineOut, steps, codec, sessions>>

\* the fingerprint of the capture the loop is at (lines 90-100)
CurrentHash == Fingerprint(Head(captures).environment, Head(captures).tex_code)

\* Emit with push_front in the place of push_back
EmitFront(image, hash, cached) ==
    LET ph == Placeholder(image, hash, Lines(Head(captures).block))
    IN  IF ph.panic # "none"
        THEN /\ Panic(ph.panic)
             /\ UNCHANGED <<queue, captures, emitted>>
        ELSE /\ queue' = <<ph.text>> \o queue
             /\ emitted' = Append(emitted,
                    [hash |-> hash, text |-> ph.text, cached |-> cached,
                     image |-> image, capture |-> Head(captures)])
             /\ captures' = Tail(captures)
             /\ pc' = "scan"
             /\ UNCHANGED panic

\* lines 113-132 for the capture the loop is at, on the entry the cache gave
Emit(image, hash, cached) ==
    LET ph == Placeholder(image, hash, Lines(Head(captures).block))
    IN  IF ph.panic # "none"
        THEN /\ Panic(ph.panic)
             /\ UNCHANGED <<queue, captures, emitted>>
        ELSE /\ queue' = Append(queue, ph.text)
             /\ emitted' = Append(emitted,
                    [hash |-> hash, text |-> ph.text, cached |-> cached,
                     image |-> image, capture |-> Head(captures)])
             /\ captures' = Tail(captures)
             /\ pc' = "scan"
             /\ UNCHANGED panic

\* lines 102-103: the fingerprint has an entry, nothing is rendered
CacheHit ==
    /\ pc = "scan"
    /\ captures # <<>>
    /\ LET hash == CurrentHash
           entry == CacheGet(images, hash)
       IN  /\ entry.some
           /\ Emit(entry.val, hash, TRUE)
    /\ UNCHANGED <<images, files, buffer, cur, ret, renders, inserted, engineOut, steps, codec, sessions>>

\* CacheMiss without the lookup of line 102: every block is rendered
CacheMissAlways ==
    /\ pc = "scan"
    /\ captures # <<>>
    /\ LET hash == CurrentHash
       IN  /\ renders[hash] < MaxRenders
           /\ cur' = [active |-> TRUE, hash |-> hash,
                      environment |-> Head(captures).environment,
                      tex_code |-> Head(captures).tex_code,
                      result |-> Err("")]
           /\ renders' = [renders EXCEPT ![hash] = @ + 1]
    /\ steps' = <<>>
    /\ pc' = "create"
    /\ UNCHANGED <<images, files, buffer, captures, queue, ret, panic,
                   inserted, engineOut, emitted, codec, sessions>>

\* lines 104-105: no entry, invoke_latex is called
CacheMiss ==
    /\ pc = "scan"
    /\ captures # <<>>
    /\ LET hash == CurrentHash
       IN  /\ ~CacheGet(images, hash).some
           /\ renders[hash] < MaxRenders
           /\ cur' = [active |-> TRUE, hash |-> hash,
                      environment |-> Head(captures).environment,
                      tex_code |-> Head(captures).tex_code,
                      result |-> Err("")]
           /\ renders' = [renders EXCEPT ![hash] = @ + 1]
    /\ steps' = <<>>
    /\ pc' = "create"
    /\ UNCHANGED <<images, files, buffer, captures, queue, ret, panic,
                   inserted, engineOut, emitted, codec, sessions>>

\* invoke_latex returns r (the ? operator, or the last expression)
Return(r) == cur' = [cur EXCEPT !.result = r] /\ pc' = "store"

\* invoke_latex, lines 141-151: File::create and the five writeln!
WriteTex(behaviours) ==
    /\ pc = "create"
    /\ \E b \in behaviours :
         /\ steps' = Append(steps, [tool |-> "write", how |-> b.how])
         /\ CASE b.how = "create_failed" ->
                   /\ Return(Err("failed to create LaTeX buffer: " \o b.err))
                   /\ UNCHANGED files
              [] b.how = "write_failed" ->
                   /\ Return(Err(b.err))
                   /\ files' = (TexFile :> "") @@ files
              [] OTHER ->
                   /\ files' = (TexFile :> LatexSource(cur.tex_code, cur.environment)) @@ files
                   /\ cur' = cur
                   /\ pc' = "latex"
    /\ UNCHANGED <<images, buffer, captures, queue, ret, panic, renders, inserted,
                   engineOut, emitted, codec, sessions>>

\* what follows execute(process_cmd)? in invoke_latex
AfterExecute(r, next) ==
    IF r.panic # "none" THEN Panic(r.panic) /\ cur' = cur
    ELSE IF r.res.ok THEN pc' = next /\ cur' = cur /\ panic' = panic
    ELSE Return(r.res) /\ panic' = panic

\* invoke_latex, lines 153-160: the typesetting engine reads tikz.tex and
\* writes tikz.pdf
RunLatex(behaviours) ==
    /\ pc = "latex"
    /\ \E b \in behaviours :
         /\ files' = IF b.wrote THEN (PdfFile :> [src |-> files[TexFile]]) @@ files
                     ELSE files
         /\ engineOut' = IF b.how = "exit_nonzero" THEN (cur.hash :> b.stdout) @@ engineOut
                         ELSE engineOut
         /\ steps' = Append(steps, [tool |-> LATEX_ENGINE, how |-> b.how])
         /\ AfterExecute(Execute(LATEX_ENGINE, b.how, b.err, b.stdout), "pdf2svg")
    /\ UNCHANGED <<images, buffer, captures, queue, ret, renders, inserted, emitted, codec, sessions>>

\* invoke_latex, lines 162-165: the converter reads tikz.pdf and writes
\* tikz.svg
RunPdf2svg(behaviours, svgs) ==
    /\ pc = "pdf2svg"
    /\ \E b \in behaviours :
         /\ \/ /\ b.wrote /\ PdfFile \in DOMAIN files
               /\ \E meta \in svgs : files' = (SvgFile :> SvgOf(files[PdfFile], meta)) @@ files
            \/ /\ ~b.wrote
               /\ files' = files
         /\ steps' = Append(steps, [tool |-> PDF2SVG, how |-> b.how])
         /\ AfterExecute(Execute(PDF2SVG, b.how, b.err, b.stdout), "read")
    /\ UNCHANGED <<images, buffer, captures, queue, ret, renders, inserted, engineOut,
                   emitted, codec, sessions>>

\* invoke_latex, line 167: read(&svg_path)
ReadSvg(behaviours) ==
    /\ pc = "read"
    /\ \E b \in behaviours :
         /\ b.how = "ok" => SvgFile \in DOMAIN files
         /\ steps' = Append(steps, [tool |-> "read", how |-> b.how])
         /\ Return(IF b.how = "ok" THEN Ok(files[SvgFile])
                   ELSE Err("failed to read generated SVG: " \o b.err))
    /\ UNCHANGED <<images, files, buffer, captures, queue, ret, panic, renders, inserted,
                   engineOut, emitted, codec, sessions>>

\* lines 105-109 and 113-132: the result is boxed and inserted, the entry is
\* read back (get(&hash).unwrap()) and the placeholder made from it
Store ==
    /\ pc = "store"
    /\ images' = FrozenInsert(images, cur.hash, cur.result)
    /\ inserted' = IF cur.hash \in DOMAIN images THEN inserted + 1 ELSE inserted
    /\ cur' = NoRender
    /\ steps' = <<>>
    /\ LET entry == CacheGet(images', cur.hash)
       IN  IF entry.some THEN Emit(entry.val, cur.hash, FALSE)
           ELSE /\ Panic("replace: get(&hash).unwrap()")
                /\ UNCHANGED <<queue, captures, emitted>>
    /\ UNCHANGED <<files, buffer, ret, renders, engineOut, codec, sessions>>

\* lines 135-137: replace_all pops one placeholder per match
Substitute ==
    /\ pc = "scan"
    /\ captures = <<>>
    /\ LET r == ReplaceAll(buffer, queue)
       IN  IF r.popped_empty
           THEN /\ Panic("replace: images.pop_front().unwrap()")
                /\ UNCHANGED <<queue, ret>>
           ELSE /\ queue' = r.queue
                /\ ret' = [call |-> "replace", arg |-> buffer, out |-> r.out]
                /\ pc' = "returned"
                /\ UNCHANGED panic
    /\ UNCHANGED <<images, files, buffer, captures, cur, history, codec, sessions>>

\* Fetch that takes the entry out of the map instead of borrowing it
FetchTake(index) ==
    /\ pc = "idle"
    /\ index \in DOMAIN images
    /\ ret' = [call |-> "fetch", arg |-> index, val |-> images[index]]
    /\ images' = [h \in DOMAIN images \ {index} |-> images[h]]
    /\ pc' = "returned"
    /\ UNCHANGED <<files, buffer, captures, queue, cur, panic, history, codec, sessions>>

\* Tikz::fetch: get(&index).unwrap()
Fetch(index) ==
    /\ pc = "idle"
    /\ LET e == CacheGet(images, index)
       IN  IF e.some
           THEN /\ ret' = [call |-> "fetch", arg |-> index, val |-> e.val]
                /\ pc' = "returned"
                /\ UNCHANGED panic
           ELSE /\ Panic("fetch: get(&index).unwrap()")
                /\ ret' = [call |-> "fetch", arg |-> index]
    /\ UNCHANGED <<images, files, buffer, captures, queue, cur, history, codec, sessions>>

\* Tikz::is_filename, called by the host on the name of a file it misses
IsFilenameCall(name) ==
    /\ pc = "idle"
    /\ LET r == IsFilename(name)
       IN  /\ ret' = [call |-> "is_filename", arg |-> name, val |-> r]
           /\ IF r = SlicePanic THEN Panic("is_filename: slice")
              ELSE pc' = "returned" /\ UNCHANGED panic
    /\ UNCHANGED <<images, files, buffer, captures, queue, cur, history, codec, sessions>>

\* the caller takes the value a call returned; the locals of the call are gone
Continue ==
    /\ pc = "returned"
    /\ pc' = "idle"
    /\ ret' = NoRet
    /\ buffer' = ""
    /\ queue' = <<>>
    /\ emitted' = <<>>
    /\ UNCHANGED <<images, files, captures, cur, panic, renders, inserted, engineOut, steps, codec, sessions>>

Next ==
    \/ \E doc \in Docs : Replace(doc)
    \/ CacheHit
    \/ CacheMiss
    \/ WriteTex(WriteBehaviours)
    \/ RunLatex(ToolBehaviours)
    \/ RunPdf2svg(ToolBehaviours, SvgSamples)
    \/ ReadSvg(ReadBehaviours)
    \/ Store
    \/ Substitute
    \/ \E index \in FetchSamples : Fetch(index)
    \/ \E name \in NameSamples : IsFilenameCall(name)
    \/ Continue

Spec == Init /\ [][Next]_vars

(***************************************************************************)
(* Properties of the session                                               *)
(***************************************************************************)
\* C1: in one session invoke_latex is called at most once per fingerprint:
\* no fingerprint is rendered twice, a fingerprint with an entry was rendered
\* exactly once, the render in progress is for a fingerprint without entry,
\* and a block served from the cache gets the stored entry, Ok or Err alike
C1_RenderedAtMostOnce ==
    /\ \A h \in Fingerprints : renders[h] <= 1
    /\ \A h \in DOMAIN images : renders[h] = 1
    /\ cur.active => (cur.hash \notin DOMAIN images /\ renders[cur.hash] = 1)
    /\ \A i \in DOMAIN emitted :
         emitted[i].cached =>
            /\ emitted[i].hash \in DOMAIN images
            /\ emitted[i].image = images[emitted[i].hash]

\* a failed diagram that stands twice in one document was attempted once
C1_Witness ==
    /\ pc = "returned" /\ ret.call = "replace" /\ ret.arg = DocTwice
    /\ Len(emitted) = 2
    /\ ~emitted[1].cached /\ emitted[2].cached
    /\ ~emitted[2].image.ok
    /\ renders[emitted[2].hash] = 1

\* C2: the cache is append-only: no step removes an entry or changes its
\* value, and insert is never executed for a fingerprint that has an entry
C2_AppendOnly ==
    [][ /\ \A h \in DOMAIN images : h \in DOMAIN images' /\ images'[h] = images[h]
        /\ inserted' = 0 ]_vars

\* a second entry has been added next to a first one, and fetch has read one
C2_Witness ==
    /\ Cardinality(DOMAIN images) = 2
    /\ pc = "returned" /\ ret.call = "fetch"

\* the number of positions of s where p stands
CountOcc(s, p) == Cardinality({i \in 1..Len(s) : At(s, i, p)})

\* the text of s after match i and before match i + 1
Gap(s, caps, i) ==
    SubSeq(s, IF i = 0 THEN 1 ELSE caps[i].end,
              IF i = Len(caps) THEN Len(s) ELSE caps[i + 1].start - 1)

\* the text of s with the first i matches replaced by texts[1] .. texts[i]
RECURSIVE Stitch(_, _, _, _)
Stitch(s, caps, texts, i) ==
    IF i = 0 THEN Gap(s, caps, 0)
    ELSE Stitch(s, caps, texts, i - 1) \o texts[i] \o Gap(s, caps, i)

DirectiveHead == "image(\"" \o PREFIX

\* C3: the text replace returns for a document with N blocks has N
\* directives, the i-th with the fingerprint of the i-th block, around them
\* the text of the input outside the blocks; the queue is never popped empty
\* and is empty at the end
C3_DirectivesInOrder ==
    /\ panic # "replace: images.pop_front().unwrap()"
    /\ (pc = "returned" /\ ret.call = "replace") =>
         LET caps == CapturesIter(ret.arg)
             N == Len(caps)
         IN  /\ Len(emitted) = N
             /\ \A i \in 1..N :
                  /\ emitted[i].hash = Fingerprint(caps[i].environment, caps[i].tex_code)
                  /\ StartsWith(emitted[i].text,
                                DirectiveHead \o ToDecimal(emitted[i].hash) \o SUFFIX \o "\"")
             /\ ret.out = Stitch(ret.arg, caps, [i \in 1..N |-> emitted[i].text], N)
             /\ CountOcc(ret.out, DirectiveHead) = N + CountOcc(ret.arg, DirectiveHead)
             /\ queue = <<>>

\* a document with three blocks of two fingerprints has been rewritten
C3_Witness ==
    /\ pc = "returned" /\ ret.call = "replace" /\ ret.arg = DocMixed
    /\ Len(emitted) = 3
    /\ emitted[1].hash # emitted[2].hash
    /\ emitted[1].text # emitted[2].text

\* C4: a failure of a render never aborts replace, whatever the tool wrote
\* on its standard output: replace never panics while invoke_latex runs
C4_FailureNeverAborts == ~(pc = "panicked" /\ cur.active)

UnitSymbols == {"em", "pt", "cm", "mm", "in", "%"}

\* a decimal number: digits with at most one point among them
IsNumber(s) ==
    /\ \E i \in 1..Len(s) : IsDigit(Char(s, i))
    /\ \A i \in 1..Len(s) : IsDigit(Char(s, i)) \/ Char(s, i) = "."
    /\ CountOcc(s, ".") <= 1

OnlyNewlines(s) == \A i \in 1..Len(s) : Char(s, i) = "\n"

\* image("generated_tikz_<fingerprint>.svg") and newlines, nothing else
FailShape(text, hash) ==
    LET head == DirectiveHead \o ToDecimal(hash) \o SUFFIX \o "\")"
    IN  /\ StartsWith(text, head)
        /\ OnlyNewlines(SubSeq(text, Len(head) + 1, Len(text)))
        /\ CountOcc(text, "width") = 0

\* image("generated_tikz_<fingerprint>.svg", width: <number><unit>) and
\* newlines, for the declared number
OkShape(text, hash, number) ==
    LET head == DirectiveHead \o ToDecimal(hash) \o SUFFIX \o "\", width: "
        rest == SubSeq(text, Len(head) + 1, Len(text))
        closes == {i \in 1..Len(rest) : Char(rest, i) = ")"}
    IN  /\ StartsWith(text, head)
        /\ closes # {}
        /\ LET c == Least(closes)
               w == SubSeq(rest, 1, c - 1)
           IN  /\ OnlyNewlines(SubSeq(rest, c + 1, Len(rest)))
               /\ \E u \in UnitSymbols :
                    /\ EndsWith(w, u)
                    /\ SubSeq(w, 1, Len(w) - Len(u)) = number
                    /\ IsNumber(number)

\* C5: a block whose entry is Failed gets a directive without width clause,
\* a block whose entry is Rendered one with width: <number><unit>, the unit
\* one of em, pt, cm, mm, in, %, for computed and for reused entries alike
C5_DirectiveShape ==
    \A i \in DOMAIN emitted :
        LET e == emitted[i]
        IN  /\ e.hash \in DOMAIN images
            /\ e.image = images[e.hash]
            /\ ~e.image.ok => FailShape(e.text, e.hash)
            /\ e.image.ok => OkShape(e.text, e.hash, e.image.bytes.width)

\* one replace has emitted the directive of a reused failure and that of a
\* freshly rendered image
C5_Witness ==
    /\ pc = "returned" /\ ret.call = "replace"
    /\ \E i, j \in DOMAIN emitted :
         /\ emitted[i].cached /\ ~emitted[i].image.ok
         /\ ~emitted[j].cached /\ emitted[j].image.ok


\* C6: when the engine exited non-zero with standard output s for a diagram
\* that has an entry, the name emitted for the diagram decodes to its
\* fingerprint and the entry, and what fetch returns for it, is the failure
\* whose message is s, in every later state of the session
C6_EngineOutputSurfaced ==
    /\ \A h \in DOMAIN engineOut \cap DOMAIN images :
         /\ IsFilename(PlaceholderName(h)) = Some(h)
         /\ ~images[h].ok
         /\ Bytes(images[h].msg) = engineOut[h]
    /\ \A i \in DOMAIN emitted :
         emitted[i].hash \in DOMAIN engineOut =>
            StartsWith(emitted[i].text, "image(\"" \o PlaceholderName(emitted[i].hash) \o "\"")
    /\ (pc = "returned" /\ ret.call = "fetch" /\ ret.arg \in DOMAIN engineOut) =>
         /\ ~ret.val.ok
         /\ Bytes(ret.val.msg) = engineOut[ret.arg]

\* fetch has returned the output of the engine for one diagram after another
\* diagram was rendered
C6_Witness ==
    /\ pc = "returned" /\ ret.call = "fetch"
    /\ ret.arg \in DOMAIN engineOut
    /\ engineOut[ret.arg] = Bytes("Undefined control sequence.")
    /\ ret.val = Err("Undefined control sequence.")
    /\ Cardinality(DOMAIN images) = 2

\* the part of a name between a prefix and a suffix of the placeholder's
\* lengths
Middle(name) == SubSeq(name, PREFIX_SIZE + 1, Len(name) - SUFFIX_SIZE)

MaxDecimal == "18446744073709551615"

\* digits, after an optional sign
Unsigned(m) == IF Len(m) > 1 /\ Char(m, 1) = "+" THEN SubSeq(m, 2, Len(m)) ELSE m

Numeric(m) ==
    /\ Unsigned(m) # ""
    /\ \A i \in 1..Len(Unsigned(m)) : IsDigit(Char(Unsigned(m), i))

StripZeros(d) ==
    LET nz == {i \in 1..Len(d) : Char(d, i) # "0"}
    IN  IF nz = {} THEN "0" ELSE SubSeq(d, Least(nz), Len(d))

\* a string of digits that denotes a number below 2^64
InRange(d) ==
    LET z == StripZeros(d)
    IN  \/ Len(z) < Len(MaxDecimal)
        \/ /\ Len(z) = Len(MaxDecimal)
           /\ \/ z = MaxDecimal
              \/ \E i \in 1..Len(z) :
                   /\ SubSeq(z, 1, i - 1) = SubSeq(MaxDecimal, 1, i - 1)
                   /\ DigitVal(Char(z, i)) < DigitVal(Char(MaxDecimal, i))

\* prefix + fingerprint + suffix; a name that is too short, or has an empty,
\* non-numeric or out-of-range middle part, does not have the shape
HasShape(name) ==
    /\ Len(name) >= PREFIX_SIZE + SUFFIX_SIZE
    /\ StartsWith(name, PREFIX)
    /\ EndsWith(name, SUFFIX)
    /\ Numeric(Middle(name))
    /\ InRange(Unsigned(Middle(name)))

\* C8: is_filename returns None, and does not panic, for every name that
\* does not have the shape prefix + fingerprint + suffix; the unknown
\* fingerprint is another outcome: it arises only in fetch, for a number
\* without entry, it is a panic, and it leaves the cache as it was
C8_NotAPlaceholder ==
    [][ /\ ret'.call = "is_filename" =>
              /\ ret'.val # SlicePanic
              /\ pc' # "panicked"
              /\ ~HasShape(ret'.arg) => ret'.val = None
              /\ HasShape(ret'.arg) => ret'.val.some
        /\ panic' \notin {"is_filename: slice", "replace: get(&hash).unwrap()"}
        /\ (panic' = "fetch: get(&index).unwrap()" /\ panic = "none") =>
              /\ pc = "idle" /\ pc' = "panicked"
              /\ ret'.call = "fetch"
              /\ ret'.arg \notin DOMAIN images
              /\ images' = images
        /\ (ret'.call = "fetch" /\ ret'.arg \notin DOMAIN images') =>
              (pc' = "panicked" /\ panic' = "fetch: get(&index).unwrap()") ]_vars

\* is_filename has returned None for a name whose middle part is 2^64, in a
\* session that has an entry
C8_Witness ==
    /\ pc = "returned" /\ ret.call = "is_filename"
    /\ ret.arg = "generated_tikz_18446744073709551616.svg"
    /\ ret.val = None
    /\ images # EmptyMap

DrawTex == "\\draw (0,0) -- (1,1);"

DrawHash == Fingerprint("tikzpicture", DrawTex)

DrawRewritten ==
    "before #image(\"generated_tikz_" \o ToDecimal(DrawHash) \o ".svg\", width: 3cm) after"

\* C9 as the specification has it: the input without code fence is rewritten
\* to the text with the directive
C9_UnfencedRewritten ==
    (pc = "returned" /\ ret.call = "replace" /\ ret.arg = DocUnfenced) =>
        ret.out = DrawRewritten

\* C9: the input whose payload stands between two code fences, with a
\* render of declared width 3cm, is rewritten to the text with the directive
\* for the fingerprint of ("tikzpicture", payload); the input without code
\* fence is returned as it is and nothing is rendered for it
C9_FencedRewritten ==
    (pc = "returned" /\ ret.call = "replace") =>
        /\ ( /\ ret.arg = DocFenced
             /\ DrawHash \in DOMAIN images
             /\ images[DrawHash].ok
             /\ images[DrawHash].bytes.kind = "svg"
             /\ images[DrawHash].bytes.width = "3"
             /\ images[DrawHash].bytes.unit = "Cm" ) => ret.out = DrawRewritten
        /\ ret.arg = DocUnfenced => (ret.out = DocUnfenced /\ emitted = <<>>)

\* the fenced input has been rewritten after a render of width 3cm
C9_Witness ==
    /\ pc = "returned" /\ ret.call = "replace" /\ ret.arg = DocFenced
    /\ Len(emitted) = 1 /\ ~emitted[1].cached
    /\ ret.out = DrawRewritten

\* the steps of invoke_latex in the order of the code
PipelineOrder == <<"write", LATEX_ENGINE, PDF2SVG, "read">>

StepSucceeded(st) == st.how \in {"ok", "exit_zero"}

\* the steps taken are the first ones of the pipeline, in its order, and
\* every step but the last one taken has succeeded
StepsOrdered ==
    /\ Len(steps) <= Len(PipelineOrder)
    /\ \A i \in DOMAIN steps : steps[i].tool = PipelineOrder[i]
    /\ \A i \in DOMAIN steps : i < Len(steps) => StepSucceeded(steps[i])
    /\ steps # <<>> => cur.active

\* C11: the steps of one invoke_latex call are taken in the order write,
\* engine, converter, read, each only after the one before it has
\* succeeded, and when a step fails the call returns Failed with no later
\* step taken
C11_OrderedAndFailureReturned ==
    /\ StepsOrdered
    /\ (steps # <<>> /\ ~StepSucceeded(steps[Len(steps)])) =>
          (pc = "store" /\ ~cur.result.ok)

ImageCall == "image(\""

\* the name that stands in s after the  image("  at position i
NameAt(s, i) ==
    LET first == i + Len(ImageCall)
        quotes == {j \in first..Len(s) : Char(s, j) = "\""}
    IN  IF quotes = {} THEN SubSeq(s, first, Len(s))
        ELSE SubSeq(s, first, Least(quotes) - 1)

\* C13: every name replace has written into the text it returns decodes
\* with is_filename to a fingerprint that has an entry, every placeholder
\* pushed is for a fingerprint with an entry, and fetch panics only for a
\* number no render was ever started for
C13_PlaceholdersResolvable ==
    /\ (pc = "returned" /\ ret.call = "replace") =>
          \A i \in 1..Len(ret.out) :
             At(ret.out, i, ImageCall) =>
                /\ IsFilename(NameAt(ret.out, i)).some
                /\ IsFilename(NameAt(ret.out, i)).val \in DOMAIN images
    /\ \A i \in DOMAIN emitted : emitted[i].hash \in DOMAIN images
    /\ panic = "fetch: get(&index).unwrap()" =>
          (ret.arg \notin Fingerprints \/ renders[ret.arg] = 0)

\* replace has returned a text with three names, of a failure and of an image
C13_Witness ==
    /\ pc = "returned" /\ ret.call = "replace"
    /\ CountOcc(ret.out, ImageCall) = 3
    /\ \E i, j \in DOMAIN emitted : emitted[i].image.ok /\ ~emitted[j].image.ok

\* C14: every placeholder ends with as many newlines as the matched block
\* holds and has no other newline, so the text replace returns has as many
\* newlines as the input, and the text before each block and after the last
\* one starts on the line it started on in the input
C14_LineCountPreserved ==
    (pc = "returned" /\ ret.call = "replace") =>
        LET caps == CapturesIter(ret.arg)
            N == Len(caps)
            texts == [i \in 1..N |-> emitted[i].text]
        IN  /\ CountNewlines(ret.out) = CountNewlines(ret.arg)
            /\ \A i \in 1..N :
                 LET matched == SubSeq(ret.arg, caps[i].start, caps[i].end - 1)
                     k == CountNewlines(matched)
                     t == texts[i]
                 IN  /\ CountNewlines(t) = k
                     /\ SubSeq(t, Len(t) - k + 1, Len(t)) = Repeat("\n", k)
                     /\ Char(t, Len(t) - k) = ")"
            /\ \A i \in 0..N :
                 CountNewlines(Stitch(ret.arg, caps, texts, i))
                    = CountNewlines(SubSeq(ret.arg, 1,
                         IF i = N THEN Len(ret.arg) ELSE caps[i + 1].start - 1))

\* a document whose blocks hold newlines has been rewritten with a failure
\* placeholder and a success placeholder
C14_Witness ==
    /\ pc = "returned" /\ ret.call = "replace" /\ ret.arg = DocMixed
    /\ CountNewlines(ret.out) = 4
    /\ emitted[1].image.ok /\ ~emitted[2].image.ok

\* C15: is_filename returns Some(h) only for the name
\* "generated_tikz_" + decimal(h) + ".svg", the one replace writes for h
C15_OnlyEmittedNameDecodes ==
    (pc = "returned" /\ ret.call = "is_filename" /\ ret.val.some) =>
        ret.arg = "generated_tikz_" \o ToDecimal(ret.val.val) \o ".svg"

\* C16: when replace panics on a block whose entry is Rendered, the reason
\* is a width unit outside em, pt, cm, mm, in, %, and nothing else; the
\* entry stays Rendered and replace returns no text
C16_OnlyUnitIsFatal ==
    /\ panic = "Unsupported SVG-generated unit" =>
          /\ pc = "panicked" /\ ret.call # "replace"
          /\ images[CurrentHash].ok
          /\ images[CurrentHash].bytes.unit
                \notin {"Em", "Pt", "Cm", "Mm", "In", "Percent"}
    /\ ( /\ pc = "panicked" /\ ~cur.active /\ captures # <<>>
         /\ CurrentHash \in DOMAIN images
         /\ images[CurrentHash].ok ) => panic = "Unsupported SVG-generated unit"

(***************************************************************************)
(* The placeholder name as a pure function: a fingerprint is encoded by    *)
(* replace and the name decoded by is_filename                             *)
(***************************************************************************)
\* 64-bit values at the ends of the range, around the powers of ten and of
\* two, and with every limb small, large or zero
U64Samples ==
    {U64(a, b, c, d) : a, b, c, d \in {0, 9, 65535}}
    \cup {U64(0, 0, 0, d) : d \in {1, 10, 99, 100, 9999, 10000, 65534}}
    \cup {U64(0, 0, 1, 0), U64(0, 0, 1, 34463), U64(0, 0, 1, 34464),
          U64(0, 1, 0, 0), U64(1, 0, 0, 0), U64(35527, 1, 2, 3),
          U64(35527, 8964, 35303, 65535), U64(35527, 8964, 35304, 0),
          U64(65535, 65535, 65535, 65534)}
    \cup Fingerprints

InitCodec ==
    /\ Init!1 /\ Init!2 /\ Init!4 /\ Init!5 /\ Init!6 /\ Init!7 /\ Init!8 /\ Init!9
    /\ Init!10 /\ Init!11 /\ Init!12 /\ Init!13 /\ Init!16
    /\ Init!17 /\ Init!18 /\ Init!19
    /\ pc = "encode"
    /\ fp \in U64Samples
    /\ fname = ""

\* replace, lines 114 and 129-132: the name written into the directive
Encode ==
    /\ pc = "encode"
    /\ fname' = PlaceholderName(fp)
    /\ pc' = "decode"
    /\ UNCHANGED <<images, files, buffer, captures, queue, cur, ret, panic, history, fp, sessions>>

\* is_filename on the name the host read back from the directive
Decode ==
    /\ pc = "decode"
    /\ ret' = [call |-> "is_filename", arg |-> fname, val |-> IsFilename(fname)]
    /\ pc' = "decoded"
    /\ UNCHANGED <<images, files, buffer, captures, queue, cur, panic, history, codec, sessions>>

NextCodec == Encode \/ Decode

SpecCodec == InitCodec /\ [][NextCodec]_vars

\* a decimal numeral without sign and without leading zero
Canonical(d) ==
    /\ d # ""
    /\ \A i \in 1..Len(d) : IsDigit(Char(d, i))
    /\ Len(d) > 1 => Char(d, 1) # "0"
    /\ Len(d) <= Len(MaxDecimal)

\* C7: for every 64-bit fingerprint h, the name emitted for h is
\* "generated_tikz_" + decimal(h) + ".svg" and is_filename of it is Some(h)
C7_NameRoundTrip ==
    /\ pc # "encode" =>
         /\ StartsWith(fname, "generated_tikz_") /\ EndsWith(fname, ".svg")
         /\ Canonical(Middle(fname))
    /\ pc = "decoded" => (ret.arg = fname /\ ret.val = Some(fp))

\* the largest fingerprint has been encoded and decoded
C7_Witness ==
    /\ pc = "decoded"
    /\ fp = U64Max
    /\ fname = "generated_tikz_18446744073709551615.svg"
    /\ ret.val = Some(U64Max)

(***************************************************************************)
(* The session with tools that may exit with success without writing their *)
(* output file: the scratch files tikz.tex, tikz.pdf and tikz.svg are      *)
(* never removed between two renders                                       *)
(***************************************************************************)
\* a child process that exits zero and has written nothing
ToolSilent == [how |-> "exit_zero", err |-> "", stdout |-> <<>>, wrote |-> FALSE]

StaleTools ==
    {ToolSuccess, ToolSilent,
     [how |-> "exit_nonzero", err |-> "", stdout |-> Bytes("Undefined control sequence."),
      wrote |-> FALSE]}

StaleSvgs == {[kind |-> "svg", width |-> "3", unit |-> "Cm"]}

StaleDocs == {DocFenced, DocMixed}

NextStale ==
    \/ \E doc \in StaleDocs : Replace(doc)
    \/ CacheHit
    \/ CacheMiss
    \/ WriteTex(WriteBehaviours)
    \/ RunLatex(StaleTools)
    \/ RunPdf2svg(StaleTools, StaleSvgs)
    \/ ReadSvg(ReadBehaviours)
    \/ Store
    \/ Substitute
    \/ Continue

SpecStale == Init /\ [][NextStale]_vars

\* C12: the bytes a render of diagram d returns as Rendered, and the bytes
\* of every Rendered entry a placeholder is made from, are those of an image
\* made from the source of d, never those of a file an earlier render of
\* another diagram has left in the scratch directory
C12_RenderedFromOwnSource ==
    /\ (pc = "store" /\ cur.result.ok) =>
          cur.result.bytes.src = LatexSource(cur.tex_code, cur.environment)
    /\ \A i \in DOMAIN emitted :
          emitted[i].image.ok =>
             emitted[i].image.bytes.src
                = LatexSource(emitted[i].capture.tex_code, emitted[i].capture.environment)

(***************************************************************************)
(* execute as a pure function: the message of a tool that cannot be        *)
(* spawned next to the message of a tool that exits non-zero               *)
(***************************************************************************)
Programs == {LATEX_ENGINE, PDF2SVG}

SpawnErrors ==
    OsErrors \cup {"Permission denied (os error 13)", "Too many open files (os error 24)"}

\* what a tool may print before it exits non-zero: any bytes, among them
\* the text of an error message
ExitStdouts ==
    StdoutSamples
    \cup {Bytes("failed to invoke " \o p \o ": " \o e) : p \in Programs, e \in SpawnErrors}
    \cup {Bytes("failed to invoke"), Bytes("! LaTeX Error: File not found.")}

InitExecute ==
    /\ Init!1 /\ Init!2 /\ Init!4 /\ Init!5 /\ Init!6 /\ Init!8 /\ Init!9
    /\ Init!10 /\ Init!11 /\ Init!12 /\ Init!13 /\ Init!14 /\ Init!15 /\ Init!16
    /\ Init!17 /\ Init!18 /\ Init!19
    /\ pc = "execute"
    /\ cur \in {[active |-> FALSE, program |-> p, err |-> e, stdout |-> b]
                  : p \in Programs, e \in SpawnErrors, b \in ExitStdouts}

\* execute for a tool that cannot be spawned and for the same tool when it
\* runs and exits non-zero
ExecuteBoth ==
    /\ pc = "execute"
    /\ ret' = [call |-> "execute",
               spawned |-> Execute(cur.program, "spawn_failed", cur.err, <<>>),
               exited |-> Execute(cur.program, "exit_nonzero", "", cur.stdout)]
    /\ pc' = "executed"
    /\ UNCHANGED <<images, files, buffer, captures, queue, cur, panic, history, codec, sessions>>

\* the caller drops the two results
ExecuteDone ==
    /\ pc = "executed"
    /\ ret' = NoRet
    /\ pc' = "done"
    /\ UNCHANGED <<images, files, buffer, captures, queue, cur, panic, history, codec, sessions>>

NextExecute == ExecuteBoth \/ ExecuteDone

SpecExecute == InitExecute /\ [][NextExecute]_vars

\* C17: the message stored for a tool that could not be spawned is never
\* the message stored for a tool that ran and exited non-zero
C17_CausesDistinguishable ==
    (pc = "executed" /\ ret.spawned.panic = "none" /\ ret.exited.panic = "none") =>
        ret.spawned.res # ret.exited.res

(***************************************************************************)
(* Two sessions.  One thread runs at a time; the variables of the session  *)
(* hold the Tikz value and the call of the session that runs, other holds  *)
(* those of the session that waits, and files is what the directory        *)
(* tempdir of the running session holds.  Switch lets the other thread     *)
(* run, between any two steps.                                             *)
(***************************************************************************)
ScratchNames == {ConfigFile, TexFile, PdfFile, SvgFile}

Peer(session) == IF session = FirstSession THEN SecondSession ELSE FirstSession

\* the files of directory dir on the file system d, by the names
\* invoke_latex and Tikz::new join to tempdir.path()
View(d, dir) ==
    [n \in {m \in ScratchNames : PathIn(dir, m) \in DOMAIN d} |-> d[PathIn(dir, n)]]

\* the file system d after the files fs of directory dir are written to it
Synced(d, dir, fs) ==
    LET mine == {PathIn(dir, n) : n \in DOMAIN fs}
        gone == {PathIn(dir, n) : n \in ScratchNames}
    IN  [q \in (DOMAIN d \ gone) \cup mine |->
            IF q \in mine THEN fs[CHOOSE n \in DOMAIN fs : PathIn(dir, n) = q] ELSE d[q]]

\* the Tikz value and the call in progress of the session that runs
Saved ==
    [active |-> TRUE, images |-> images, pc |-> pc, buffer |-> buffer,
     captures |-> captures, queue |-> queue, cur |-> cur, ret |-> ret,
     panic |-> panic, renders |-> renders, inserted |-> inserted,
     engineOut |-> engineOut, emitted |-> emitted, steps |-> steps, left |-> files]

\* the documents the host of each session has
DocsOf(session) == IF session = FirstSession THEN {DocFenced} ELSE {DocMixed}

TwoTools ==
    {ToolSuccess,
     [how |-> "exit_nonzero", err |-> "", stdout |-> Bytes("Undefined control sequence."),
      wrote |-> FALSE]}

TwoWrites == {[how |-> "ok", err |-> ""]}

TwoReads == {[how |-> "ok", err |-> ""]}

\* Tikz::new twice: each session has its own directory with its config.lua
InitTwo ==
    /\ Init!1 /\ Init!2 /\ Init!3 /\ Init!4 /\ Init!5 /\ Init!6 /\ Init!7 /\ Init!8
    /\ Init!9 /\ Init!10 /\ Init!11 /\ Init!12 /\ Init!13 /\ Init!14 /\ Init!15
    /\ Init!16 /\ Init!19
    /\ disk = Synced(Synced(<<>>, TempDirOf(SecondSession), files),
                     TempDirOf(FirstSession), files)
    /\ other = Saved

\* the thread of the other session runs from here on
Switch ==
    /\ other.active
    /\ other.pc # "panicked"
    /\ LET synced == Synced(disk, TempDirOf(running), files)
       IN  /\ disk' = synced
           /\ files' = View(synced, TempDirOf(Peer(running)))
    /\ other' = Saved
    /\ running' = Peer(running)
    /\ images' = other.images
    /\ pc' = other.pc
    /\ buffer' = other.buffer
    /\ captures' = other.captures
    /\ queue' = other.queue
    /\ cur' = other.cur
    /\ ret' = other.ret
    /\ panic' = other.panic
    /\ renders' = other.renders
    /\ inserted' = other.inserted
    /\ engineOut' = other.engineOut
    /\ emitted' = other.emitted
    /\ steps' = other.steps
    /\ UNCHANGED codec

\* the host of the running session calls replace on a document of its own
ReplaceOwn == \E doc \in DocsOf(running) : Replace(doc)

NextTwo ==
    \/ ReplaceOwn
    \/ CacheHit
    \/ CacheMiss
    \/ WriteTex(TwoWrites)
    \/ RunLatex(TwoTools)
    \/ RunPdf2svg(TwoTools, StaleSvgs)
    \/ ReadSvg(TwoReads)
    \/ Store
    \/ Substitute
    \/ \E index \in Fingerprints : Fetch(index)
    \/ Continue
    \/ Switch

SpecTwo == InitTwo /\ [][NextTwo]_vars

\* the LaTeX source invoke_latex writes for the diagram of a fingerprint
SourceOf ==
    [h \in Fingerprints |->
        LET m == CHOOSE c \in UNION {Range(CapturesIter(d)) : d \in Docs} :
                        Fingerprint(c.environment, c.tex_code) = h
        IN  LatexSource(m.tex_code, m.environment)]

\* every entry of a cache was rendered once by the session that has the
\* cache, and a Rendered entry is the image of the source of its diagram
OwnEntries(cache, rendered) ==
    \A h \in DOMAIN cache :
        /\ rendered[h] = 1
        /\ cache[h].ok => cache[h].bytes.src = SourceOf[h]

\* C18: with the steps of two sessions interleaved in any order, each cache
\* holds only entries its own session rendered, from its own sources; a
\* render returns the image of the source it wrote; a session that runs
\* again finds in its directory the files it left there; and a step of one
\* session leaves the other session as it is
C18_SessionsIsolated ==
    [][ /\ OwnEntries(images', renders')
        /\ OwnEntries(other'.images, other'.renders)
        /\ (pc' = "store" /\ cur'.result.ok) =>
              cur'.result.bytes.src = LatexSource(cur'.tex_code, cur'.environment)
        /\ running' # running =>
              /\ files' = other.left
              /\ other' = Saved
              /\ images' = other.images
        /\ running' = running => other' = other ]_vars

\* both sessions have rendered the same diagram, each for itself and with
\* its own outcome, and the second one has fetched its entry
C18_Witness ==
    /\ running = SecondSession
    /\ pc = "returned" /\ ret.call = "fetch" /\ ret.arg = DrawHash
    /\ DrawHash \in DOMAIN images /\ DrawHash \in DOMAIN other.images
    /\ images[DrawHash].ok /\ ~other.images[DrawHash].ok
    /\ other.renders[DrawHash] = 1 /\ renders[DrawHash] = 1

(***************************************************************************)
(* Extraction as a pure function: captures_iter on documents put together  *)
(* from parts that do and do not fit the pattern                           *)
(***************************************************************************)
DocNestedUnfenced == "tikzpicture[\\node{A[1]};]"

DocNested == "tikzpicture[~~~\\node{A[1]};~~~]"

ExtractDocs ==
    { pre \o kw \o open \o f1 \o tex \o f2 \o close \o post :
        pre \in {"", "x "},
        kw \in {"tikzpicture", "tikzcd", "tikz"},
        open \in {"[", "("},
        f1 \in {"~~~", " \n~~~", "~~", ""},
        tex \in {"\\node{A[1]};", "A]", "", "A~~~ ] B"},
        f2 \in {"~~~", "~~~ \n", ""},
        close \in {"]", ""},
        post \in {"", " tikzcd[~~~B~~~]"} }
    \cup Docs \cup {DocNested, DocNestedUnfenced}

InitExtract ==
    /\ Init!1 /\ Init!2 /\ Init!5 /\ Init!6 /\ Init!7 /\ Init!8 /\ Init!9
    /\ Init!10 /\ Init!11 /\ Init!12 /\ Init!13 /\ Init!14 /\ Init!15 /\ Init!16
    /\ Init!17 /\ Init!18 /\ Init!19
    /\ pc = "extract"
    /\ buffer \in ExtractDocs

\* replace, line 89: the matches of the pattern in the buffer
Extract ==
    /\ pc = "extract"
    /\ captures' = CapturesIter(buffer)
    /\ pc' = "extracted"
    /\ UNCHANGED <<images, files, buffer, queue, cur, ret, panic, history, codec, sessions>>

\* replace, lines 135-137 with a queue that holds the tex_code of each match
Rewrite ==
    /\ pc = "extracted"
    /\ ret' = [call |-> "replace", arg |-> buffer,
               out |-> ReplaceAll(buffer, [i \in 1..Len(captures) |-> "<" \o captures[i].tex_code \o ">"]).out]
    /\ pc' = "rewritten"
    /\ UNCHANGED <<images, files, buffer, captures, queue, cur, panic, history, codec, sessions>>

NextExtract == Extract \/ Rewrite

SpecExtract == InitExtract /\ [][NextExtract]_vars

NodeTex == "\\node{A[1]};"

\* C10 as the specification has it: the block without code fence is
\* extracted as one block whose payload is the text between the outer brackets
C10_UnfencedNestedExtracted ==
    (pc # "extract" /\ buffer = DocNestedUnfenced) =>
        (Len(captures) = 1 /\ captures[1].tex_code = NodeTex)

\* the first position of s where a fence stands that only whitespace
\* separates from a "]", or 0
FirstClose(s) ==
    LET ends == {k \in 1..Len(s) :
                   /\ At(s, k, Fence)
                   /\ \E j \in (k + Len(Fence))..Len(s) :
                        /\ Char(s, j) = "]"
                        /\ \A t \in (k + Len(Fence))..(j - 1) : IsSpace(Char(s, t))}
    IN  IF ends = {} THEN 0 ELSE Least(ends)

\* C10: a block whose payload stands between two code fences and holds a
\* pair of brackets is extracted as one block with the whole payload; every
\* match is  environment [ whitespace fence payload fence whitespace ]  and
\* ends at the first fence that only whitespace separates from a "]",
\* whatever brackets the payload holds; the block without code fence is not
\* extracted
C10_FencedNestedExtracted ==
    pc # "extract" =>
        /\ buffer = DocNested =>
              captures = << [matched |-> TRUE, start |-> 1, end |-> Len(DocNested) + 1,
                             environment |-> "tikzpicture",
                             block |-> Fence \o NodeTex \o Fence,
                             tex_code |-> NodeTex] >>
        /\ buffer = DocNestedUnfenced => captures = <<>>
        /\ \A i \in DOMAIN captures :
              LET m == captures[i]
                  after == SubSeq(buffer, m.start + Len(m.environment) + 1, Len(buffer))
                  body == SubSeq(TrimStart(after), Len(Fence) + 1, Len(TrimStart(after)))
              IN  /\ SubSeq(buffer, m.start, m.end - 1)
                        = m.environment \o "[" \o m.block \o "]"
                  /\ Trim(m.block) = Fence \o m.tex_code \o Fence
                  /\ FirstClose(body) = Len(m.tex_code) + 1
                  /\ i > 1 => captures[i - 1].end <= m.start

\* the fenced block with the inner pair of brackets has been extracted
C10_Witness ==
    /\ pc = "extracted"
    /\ buffer = DocNested
    /\ Len(captures) = 1
    /\ captures[1].tex_code = NodeTex

====
